---- MODULE Spec2Model ----
(***************************************************************************)
(* Interpretation session coordinator: the useVoiceConversation hook, the  *)
(* conversation, voice and intent slices it dispatches to, and the part of *)
(* the WebRTC service it drives.                                           *)
(*                                                                         *)
(* One action per handler body.  A handler runs to completion; an `await`  *)
(* or a setTimeout inside it ends the action and leaves a pending          *)
(* continuation (startPhase, stopPhase, fnCalls) or a pending timer        *)
(* (timers, emergencyTimer) that a later action resumes.                   *)
(*                                                                         *)
(* Timeouts carry no duration: a pending timeout may fire at any later     *)
(* step.  Store values and the values a render closes over are read as the *)
(* store holds them when the handler is created.  The hook never           *)
(* dispatches addToMessageQueue, so messageQueue stays empty and its       *)
(* 100 ms processMessageQueue timeout does nothing and is left out; the    *)
(* queueing router, an earlier variant of the hook, is modelled apart.     *)
(* checkBrowserSupport is taken to succeed.  Status texts are left out;    *)
(* the placeholder texts are written without their leading icon.           *)
(***************************************************************************)
EXTENDS Bags, FiniteSets, Integers, Sequences, TLC

(***************************************************************************)
(* Bounds of the model.                                                    *)
(***************************************************************************)
MaxUnits == 2          \* units opened in one run
MaxClock == 2          \* Date.now() readings 1..MaxClock
MaxTimers == 1         \* setTimeout callbacks pending at once
MaxLen == 4            \* characters accumulated in assistantTranscriptRef
MaxStarts == 2         \* calls of startVoiceChat in one run
MaxCalls == 1          \* sendFunctionCall requests in flight at once

(***************************************************************************)
(* Text: JavaScript strings are TLA+ strings; toLowerCase, trim and        *)
(* includes are computed character by character.                           *)
(***************************************************************************)
UpperCase == "ABCDEFGHIJKLMNOPQRSTUVWXYZ"
LowerCase == "abcdefghijklmnopqrstuvwxyz"

LowerChar(c) ==
  IF \E i \in 1..Len(UpperCase) : SubSeq(UpperCase, i, i) = c
  THEN LET i == CHOOSE j \in 1..Len(UpperCase) : SubSeq(UpperCase, j, j) = c
       IN  SubSeq(LowerCase, i, i)
  ELSE c

RECURSIVE toLowerCase(_)
toLowerCase(s) ==
  IF s = "" THEN ""
  ELSE LowerChar(SubSeq(s, 1, 1)) \o toLowerCase(SubSeq(s, 2, Len(s)))

RECURSIVE trimStart(_)
trimStart(s) ==
  IF s # "" /\ SubSeq(s, 1, 1) = " " THEN trimStart(SubSeq(s, 2, Len(s))) ELSE s

RECURSIVE trimEnd(_)
trimEnd(s) ==
  IF s # "" /\ SubSeq(s, Len(s), Len(s)) = " "
  THEN trimEnd(SubSeq(s, 1, Len(s) - 1)) ELSE s

trim(s) == trimEnd(trimStart(s))

includes(s, keyword) ==
  \E i \in 1..(Len(s) - Len(keyword) + 1) :
     SubSeq(s, i, i + Len(keyword) - 1) = keyword

\* JavaScript truthiness of a string
Truthy(s) == s # ""

\* a || b on strings
OrElse(a, b) == IF Truthy(a) THEN a ELSE b

\* a || b on identifiers, 0 standing for null
OrId(a, b) == IF a # 0 THEN a ELSE b

(***************************************************************************)
(* Inputs the transport can deliver.                                       *)
(***************************************************************************)
\* transcripts of conversation.item.input_audio_transcription.completed
Utterances == {"hola", "Repeat that", "repeat lab order"}
\* deltas of response.audio_transcript.delta
Deltas == {"ho", " "}
\* final texts of the completion events ("" stands for a missing field)
Finals == {"", "hola", "Done"}
\* peer connection states the connection-state callback acts on
ConnectionStates == {"connecting", "connected", "failed"}
\* function names of response.function_call_arguments.done
FunctionNames == {"send_lab_order"}
\* transcripts of response.audio_transcript.done
Transcripts == {" hola ", "Done", " "}

(***************************************************************************)
(* State.                                                                  *)
(***************************************************************************)
VARIABLES
  translationPairs,        \* conversation.translationPairs, latest first
  currentSession,          \* conversation.currentSession.session_id, 0 = null
  selectedConversation,    \* conversation.selectedConversation.session_id
  connection,              \* voice.connection
  voiceState,              \* voice.voiceState
  lastTranslation,         \* voice.lastTranslation
  pendingUserMessage,      \* voice.pendingUserMessage
  messageQueue,            \* voice.messageQueue
  intent,                  \* intent slice: currentIntent (icon and label
                           \* follow it) and isVisible
  currentPairRef,          \* currentPairRef.current, 0 = null
  assistantTranscriptRef,  \* assistantTranscriptRef.current
  emergencyTimer,          \* the timeout held by translationTimeoutRef
  timers,                  \* bag of the other pending setTimeout callbacks
  cbLastTranslation,       \* lastTranslation closed over by the registered handler
  cbSessionId,             \* session id closed over by the registered handler
  cbPendingUserMessage,    \* pendingUserMessage closed over by the queueing router
  cbMessageQueue,          \* messageQueue closed over by the queueing router
  svc,                     \* webrtcService: session id and data channel
  startCalls,              \* bag of startVoiceChat calls awaiting startConnection
  stopCall,                \* the stopVoiceChat call in progress
  fnCalls,                 \* bag of handleFunctionCall calls awaiting the backend
  now,                     \* the latest reading of Date.now()
  opened,                  \* history: number of units created so far
  starts,                  \* history: number of startVoiceChat calls so far
  outbox,                  \* messages the latest handler gave to sendMessage
  saved,                   \* saveMessage thunks the latest handler dispatched
  parseErrors              \* console.error calls of the service's message listener

coordinatorVars ==
  <<translationPairs, currentSession, selectedConversation, connection,
    voiceState, lastTranslation, pendingUserMessage, messageQueue, intent,
    currentPairRef, assistantTranscriptRef, emergencyTimer, timers,
    cbLastTranslation, cbSessionId, cbPendingUserMessage, cbMessageQueue,
    svc, startCalls, stopCall, fnCalls, now, opened, starts, outbox, saved>>

vars == <<coordinatorVars, parseErrors>>

initialConnection ==
  [sessionId |-> 0, isConnected |-> FALSE, connectionState |-> "new"]

initialVoiceState == [isConnected |-> FALSE, isError |-> FALSE]


NoTimer == [armed |-> FALSE, unit |-> 0]

NoStop == [phase |-> "idle", sessionId |-> 0]

Init ==
  /\ translationPairs = <<>>
  /\ currentSession = 0
  /\ selectedConversation = 0
  /\ connection = initialConnection
  /\ voiceState = initialVoiceState
  /\ lastTranslation = ""
  /\ pendingUserMessage = FALSE
  /\ messageQueue = <<>>
  /\ intent = [currentIntent |-> "translation", isVisible |-> FALSE]
  /\ currentPairRef = 0
  /\ assistantTranscriptRef = ""
  /\ emergencyTimer = NoTimer
  /\ timers = EmptyBag
  /\ cbLastTranslation = ""
  /\ cbSessionId = 0
  /\ cbPendingUserMessage = FALSE
  /\ cbMessageQueue = <<>>
  /\ svc = [sessionId |-> 0, channel |-> "none", leaked |-> FALSE, issued |-> 0]
  /\ startCalls = EmptyBag
  /\ stopCall = NoStop
  /\ fnCalls = EmptyBag
  /\ now = 1
  /\ opened = 0
  /\ starts = 0
  /\ outbox = <<>>
  /\ saved = <<>>
  /\ parseErrors = 0

(***************************************************************************)
(* The state a handler body reads and writes, as one record, so that the   *)
(* helper callbacks compose in the order the code calls them.              *)
(***************************************************************************)
Cur ==
  [pairs |-> translationPairs, ref |-> currentPairRef,
   buf |-> assistantTranscriptRef, em |-> emergencyTimer,
   lt |-> lastTranslation, pend |-> pendingUserMessage,
   queue |-> messageQueue, it |-> intent, vs |-> voiceState,
   tm |-> timers, n |-> opened, clock |-> now, sent |-> <<>>,
   saved |-> <<>>]

Commit(s) ==
  /\ translationPairs' = s.pairs
  /\ currentPairRef' = s.ref
  /\ assistantTranscriptRef' = s.buf
  /\ emergencyTimer' = s.em
  /\ lastTranslation' = s.lt
  /\ pendingUserMessage' = s.pend
  /\ messageQueue' = s.queue
  /\ intent' = s.it
  /\ voiceState' = s.vs
  /\ timers' = s.tm
  /\ opened' = s.n
  /\ now' = s.clock
  /\ outbox' = s.sent
  /\ saved' = s.saved

(***************************************************************************)
(* Reducers of conversationSlice and voiceSlice.                           *)
(***************************************************************************)
IndexOfId(pairs, id) ==
  CHOOSE i \in 1..Len(pairs) :
    /\ pairs[i].id = id
    /\ \A j \in 1..(i - 1) : pairs[j].id # id

addTranslationPair(s, pair) == [s EXCEPT !.pairs = <<pair>> \o @]

updateTranslationPair(s, id, translatedText, isComplete) ==
  IF \E i \in 1..Len(s.pairs) : s.pairs[i].id = id
  THEN LET i == IndexOfId(s.pairs, id)
       IN  [s EXCEPT !.pairs[i].translatedText = translatedText,
                     !.pairs[i].isComplete = isComplete]
  ELSE s

\* a faulty variant: the status is not published
updateVoiceStatusDropped(s, isError) == s

updateVoiceStatus(s, isError) == [s EXCEPT !.vs.isError = isError]

\* a faulty variant: the reducer keeps the old value
setLastTranslationKept(s, text) == s

setLastTranslation(s, text) == [s EXCEPT !.lt = text]

setPendingUserMessage(s, b) == [s EXCEPT !.pend = b]

addToMessageQueue(s, message) == [s EXCEPT !.queue = Append(@, message)]

clearMessageQueue(s) == [s EXCEPT !.queue = <<>>]

setConnected(s, b) == [s EXCEPT !.vs.isConnected = b]

showIntent(s) == [s EXCEPT !.it.isVisible = TRUE]

hideIntent(s) == [s EXCEPT !.it.isVisible = FALSE]

sendMessage(s, message) ==
  IF svc.channel = "open" THEN [s EXCEPT !.sent = Append(@, message)] ELSE s

saveMessage(s, sessionId, messageType, content) ==
  [s EXCEPT !.saved = Append(@, [sessionId |-> sessionId,
                                 messageType |-> messageType,
                                 content |-> content])]

(***************************************************************************)
(* Callbacks of the hook.                                                  *)
(***************************************************************************)
\* the session id a registered callback finds:
\* connection?.sessionId || currentSession?.session_id (both closed over)
\* || webrtcService.getConnection().sessionId (read when called)
SessionIdSeen == OrId(cbSessionId, svc.sessionId)

\* history: the number of the unit currentPairRef refers to, 0 if it is null
\* or names no unit of the store
CurrentUnit(s) ==
  IF s.ref # 0 /\ \E i \in 1..Len(s.pairs) : s.pairs[i].id = s.ref
  THEN s.n - IndexOfId(s.pairs, s.ref) + 1
  ELSE 0

\* unit is history: the unit that was current when the timeout was set
startEmergencyTimeout(s) ==
  [s EXCEPT !.em = [armed |-> TRUE, unit |-> CurrentUnit(s)]]

clearEmergencyTimeout(s) == [s EXCEPT !.em = NoTimer]

\* setTimeout(callback, ms) for the timeouts no ref keeps
\* unit is history: the unit that was current when the timeout was set
setTimeout(s, kind, text) ==
  [s EXCEPT !.tm = @ (+) SetToBag({[kind |-> kind, unit |-> CurrentUnit(s),
                                    text |-> text, sessionId |-> 0]})]

\* a faulty variant: the accumulated text is used even when there is none
forceCompleteWithoutFallback(s) ==
  LET s1 == IF s.ref # 0
            THEN LET finalText == trim(s.buf)
                 IN  [updateTranslationPair(s, s.ref, finalText, TRUE)
                        EXCEPT !.ref = 0, !.buf = ""]
            ELSE s
  IN  clearEmergencyTimeout(s1)

forceCompleteIncompleteTranslations(s) ==
  LET s1 == IF s.ref # 0
            THEN LET finalText == OrElse(trim(s.buf), "Session ended")
                 IN  [updateTranslationPair(s, s.ref, finalText, TRUE)
                        EXCEPT !.ref = 0, !.buf = ""]
            ELSE s
  IN  clearEmergencyTimeout(s1)

\* kind is history: the branch of handleUserTranscript that created the pair
createTranslationPair(s, originalText, translatedText, kind) ==
  LET pairId == s.clock
      s1 == [s EXCEPT !.ref = pairId, !.n = @ + 1]
  IN  addTranslationPair(s1, [id |-> pairId, originalText |-> originalText,
                              translatedText |-> translatedText,
                              isComplete |-> FALSE, kind |-> kind])

updateAssistantTranscript(s, delta) ==
  LET s1 == [s EXCEPT !.buf = @ \o delta]
  IN  IF s1.ref # 0
      THEN updateTranslationPair(s1, s1.ref, s1.buf, FALSE)
      ELSE s1

\* a faulty variant: currentPairRef keeps naming the completed pair
finalizeAssistantTranscriptKeepsRef(s, finalText) ==
  LET s1 == IF s.ref # 0
            THEN updateTranslationPair(s, s.ref, finalText, TRUE)
            ELSE s
      sessionId == SessionIdSeen
      s2 == IF sessionId # 0 /\ Truthy(finalText)
            THEN saveMessage(s1, sessionId, "assistant", finalText)
            ELSE s1
  IN  [s2 EXCEPT !.buf = ""]

finalizeAssistantTranscript(s, finalText) ==
  LET s1 == IF s.ref # 0
            THEN updateTranslationPair(s, s.ref, finalText, TRUE)
            ELSE s
      sessionId == SessionIdSeen
      s2 == IF sessionId # 0 /\ Truthy(finalText)
            THEN saveMessage(s1, sessionId, "assistant", finalText)
            ELSE s1
  IN  [s2 EXCEPT !.buf = "", !.ref = 0]

labKeywords ==
  {"send lab order", "order tests", "get labs", "blood work", "run tests",
   "lab order"}

appointmentKeywords ==
  {"schedule follow-up", "follow-up appointment", "next appointment",
   "come back in", "see you again", "schedule appointment"}

repeatKeywords ==
  {"repeat that", "repeat", "say again", "repite eso", "repite", "otra vez",
   "repítelo", "dilo otra vez"}

detectMedicalAction(transcript) ==
  LET text == trim(toLowerCase(transcript))
      hasLabOrder == \E keyword \in labKeywords : includes(text, keyword)
      hasAppointment ==
        \E keyword \in appointmentKeywords : includes(text, keyword)
  IN  [isMedicalAction |-> hasLabOrder \/ hasAppointment,
       actionType |-> IF hasLabOrder THEN "lab-order"
                      ELSE IF hasAppointment THEN "appointment" ELSE "null"]

\* the reducer of the intent slice, with its own keyword lists; payload is
\* the transcript
detectIntent(s, payload) ==
  LET text == trim(toLowerCase(payload))
      labKeywordsOfIntent ==
        {"send lab order", "order tests", "get labs", "blood work",
         "run tests", "lab tests", "blood tests", "urine test", "x-ray",
         "scan"}
      appointmentKeywordsOfIntent ==
        {"schedule follow-up", "next appointment", "come back in",
         "see you again", "follow up", "schedule appointment",
         "book appointment"}
      hasLabIntent ==
        \E keyword \in labKeywordsOfIntent : includes(text, keyword)
      hasAppointmentIntent ==
        \E keyword \in appointmentKeywordsOfIntent : includes(text, keyword)
      newIntent == IF hasLabIntent THEN "lab-order"
                   ELSE IF hasAppointmentIntent THEN "appointment"
                   ELSE "translation"
  IN  IF newIntent # s.it.currentIntent
      THEN [s EXCEPT !.it.currentIntent = newIntent]
      ELSE s

isRepeatRequest(transcript) ==
  LET text == trim(toLowerCase(transcript))
  IN  \E keyword \in repeatKeywords : includes(text, keyword)

\* the outbound messages of the repeat branch
repeatMessage(text) == [type |-> "conversation.item.create", text |-> text]
repeatResponseRequest(text) == [type |-> "response.create", text |-> text]

\* the branch handleUserTranscript takes
Classify(transcript) ==
  IF isRepeatRequest(transcript) /\ Truthy(cbLastTranslation) THEN "repeat"
  ELSE IF detectMedicalAction(transcript).isMedicalAction THEN "action"
  ELSE "ordinary"

handleUserTranscript(s0, transcript) ==
  LET s == showIntent(detectIntent(s0, transcript)) IN
  IF isRepeatRequest(transcript) /\ Truthy(cbLastTranslation)
  THEN LET s1 == updateVoiceStatus(s, FALSE)
           s2 == createTranslationPair(s1, transcript, "", "repeat")
           s3 == sendMessage(s2, repeatMessage(cbLastTranslation))
           s4 == sendMessage(s3, repeatResponseRequest(cbLastTranslation))
       IN  setPendingUserMessage(s4, FALSE)
  ELSE LET medicalAction == detectMedicalAction(transcript)
       IN  IF medicalAction.isMedicalAction
           THEN LET actionLabel ==
                      IF medicalAction.actionType = "lab-order"
                      THEN "Processing Lab Order..."
                      ELSE "Scheduling Appointment..."
                    s1 == createTranslationPair(s, transcript, actionLabel,
                                                "action")
                    s2 == updateVoiceStatus(s1, FALSE)
                IN  setPendingUserMessage(s2, FALSE)
           ELSE LET s1 == createTranslationPair(s, transcript, "", "ordinary")
                    sessionId == SessionIdSeen
                    s2 == IF sessionId # 0
                          THEN saveMessage(s1, sessionId, "user", transcript)
                          ELSE s1
                IN  setPendingUserMessage(s2, FALSE)

(***************************************************************************)
(* handleRealtimeEvent: one action per case of the switch.  The data       *)
(* channel delivers a message to the registered callback while it is open; *)
(* a channel the service no longer refers to still delivers.               *)
(***************************************************************************)
Delivering == svc.channel = "open" \/ svc.leaked

Pending == BagCardinality(timers)

lifecycleVars ==
  <<currentSession, selectedConversation, connection, cbLastTranslation, cbSessionId, parseErrors, cbPendingUserMessage,
                 cbMessageQueue, svc,
    startCalls, stopCall, starts>>

\* a handler that stays inside the hook's refs and the two slices
Handled(s) ==
  /\ Commit(s)
  /\ UNCHANGED <<lifecycleVars, fnCalls>>

SpeechStarted ==
  /\ Delivering
  /\ Handled(setPendingUserMessage(updateVoiceStatus(Cur, FALSE), TRUE))

SpeechStopped ==
  /\ Delivering
  /\ Handled(updateVoiceStatus(Cur, FALSE))

ResponseCreated ==
  /\ Delivering
  /\ Pending < MaxTimers
  /\ LET s1 == updateVoiceStatus(Cur, FALSE)
         s2 == startEmergencyTimeout(s1)
         s3 == setTimeout(s2, "noDelta", "")
     IN  Handled(s3)

OutputItemAdded(responseText) ==
  /\ Delivering
  /\ Handled(IF Truthy(responseText) THEN [Cur EXCEPT !.buf = responseText]
             ELSE Cur)

\* response.output_item.done and response.content_part.done:
\* text is content.transcript, else content.text
CompletionSignal(s, text) ==
  IF Truthy(text)
  THEN finalizeAssistantTranscript(setLastTranslation(s, text), text)
  ELSE s

OutputItemDone(text) ==
  /\ Delivering
  /\ Handled(CompletionSignal(Cur, text))

ContentPartDone(text) ==
  /\ Delivering
  /\ Handled(CompletionSignal(Cur, text))

TranscriptDelta(delta) ==
  /\ Delivering
  /\ Len(assistantTranscriptRef) + Len(delta) <= MaxLen
  /\ Handled(IF Truthy(trim(delta)) THEN updateAssistantTranscript(Cur, delta)
             ELSE Cur)

audioTranscriptDone(s, transcript) ==
  IF Truthy(trim(transcript))
  THEN LET finalTranscript == trim(transcript)
       IN  IF toLowerCase(finalTranscript) = "done" /\ s.ref = 0
           THEN updateVoiceStatus(clearEmergencyTimeout(s), FALSE)
           ELSE IF s.ref # 0
           THEN LET s1 == setLastTranslation(s, finalTranscript)
                    s2 == finalizeAssistantTranscript(s1, finalTranscript)
                    s3 == clearEmergencyTimeout(s2)
                    s4 == [s3 EXCEPT !.ref = 0, !.buf = ""]
                IN  updateVoiceStatus(s4, FALSE)
           ELSE s
  ELSE IF Truthy(trim(s.buf))
       THEN LET s1 == finalizeAssistantTranscript(s, trim(s.buf))
                s2 == clearEmergencyTimeout(s1)
                s3 == [s2 EXCEPT !.ref = 0, !.buf = ""]
            IN  updateVoiceStatus(s3, FALSE)
       ELSE s

TranscriptDone(transcript) ==
  /\ Delivering
  /\ Handled(audioTranscriptDone(Cur, transcript))

\* text is the transcript or text of response.output[0].content[0], if any
ResponseDone(text) ==
  /\ Delivering
  /\ Pending < MaxTimers
  /\ LET s1 == setTimeout(Cur, "responseDone", text)
         s2 == clearEmergencyTimeout(s1)
     IN  Handled(setPendingUserMessage(s2, FALSE))

\* ms is what Date.now() returns during the handler: the clock has moved on
\* since the last pair was created, or it has not
ClockReadings ==
  IF opened = 0 THEN {now} ELSE {ms \in {now, now + 1} : ms <= MaxClock}

UserTranscript(transcript, ms) ==
  /\ Delivering
  /\ opened < MaxUnits
  /\ Handled(IF Truthy(transcript)
             THEN handleUserTranscript([Cur EXCEPT !.clock = ms], transcript)
             ELSE Cur)

TranscriptionFailed ==
  /\ Delivering
  /\ Handled(updateVoiceStatus(Cur, TRUE))

AudioStopped ==
  /\ Delivering
  /\ Pending < MaxTimers
  /\ Handled(IF currentPairRef # 0 THEN setTimeout(Cur, "audioStopped", "")
             ELSE Cur)

ErrorEvent ==
  /\ Delivering
  /\ Handled(updateVoiceStatus(Cur, TRUE))

(***************************************************************************)
(* Timer callbacks.  A pending timeout fires at some later moment; the     *)
(* callbacks read the refs as they are when they run.                      *)
(***************************************************************************)
TimerOf(kind) == {t \in BagToSet(timers) : t.kind = kind}

Fired(s, t) == [s EXCEPT !.tm = @ (-) SetToBag({t})]

\* a faulty variant: the fixed text is used whatever has been accumulated
emergencyCallbackFixedText(s) ==
  LET s1 == IF s.ref # 0
            THEN [updateTranslationPair(
                    s, s.ref, "Translation timeout - please speak again",
                    TRUE)
                    EXCEPT !.ref = 0, !.buf = ""]
            ELSE s
      s2 == clearMessageQueue(setPendingUserMessage(s1, FALSE))
  IN  updateVoiceStatus(s2, FALSE)

\* the 4000 ms callback of startEmergencyTimeout
emergencyCallback(s) ==
  LET s1 == IF s.ref # 0
            THEN LET fallbackText ==
                       OrElse(trim(s.buf),
                              "Translation timeout - please speak again")
                 IN  [updateTranslationPair(s, s.ref, fallbackText, TRUE)
                        EXCEPT !.ref = 0, !.buf = ""]
            ELSE s
      s2 == clearMessageQueue(setPendingUserMessage(s1, FALSE))
  IN  updateVoiceStatus(s2, FALSE)

EmergencyTimeout ==
  /\ emergencyTimer.armed
  /\ Handled(emergencyCallback([Cur EXCEPT !.em = NoTimer]))

\* the 2000 ms callback of response.created
noDeltaCallback(s) ==
  IF s.ref # 0 /\ s.buf = ""
  THEN LET s1 == updateTranslationPair(
                   s, s.ref, "No response received - please try again", TRUE)
           s2 == [s1 EXCEPT !.ref = 0, !.buf = ""]
       IN  updateVoiceStatus(clearEmergencyTimeout(s2), FALSE)
  ELSE s

NoDeltaTimeout ==
  \E t \in TimerOf("noDelta") :
    Handled(noDeltaCallback(Fired(Cur, t)))

\* the 1000 ms callback of response.done; text comes from the event
responseDoneCallback(s, text) ==
  IF s.ref # 0
  THEN LET fromBuffer == trim(s.buf)
           fromEvent == IF Truthy(fromBuffer) THEN fromBuffer ELSE text
           finalText ==
             OrElse(fromEvent,
                    "Response completed - transcript processing issue")
           s1 == updateTranslationPair(s, s.ref, finalText, TRUE)
           s2 == [s1 EXCEPT !.ref = 0, !.buf = ""]
       IN  updateVoiceStatus(s2, FALSE)
  ELSE s

ResponseDoneTimeout ==
  \E t \in TimerOf("responseDone") :
    Handled(responseDoneCallback(Fired(Cur, t), t.text))

\* the 800 ms callback of output_audio_buffer.stopped
audioStoppedCallback(s) ==
  IF s.ref # 0
  THEN LET finalText == trim(s.buf)
           s1 == IF Truthy(finalText)
                 THEN finalizeAssistantTranscript(
                        setLastTranslation(s, finalText), finalText)
                 ELSE LET s2 == updateTranslationPair(
                                  s, s.ref,
                                  "Audio played - transcript not captured",
                                  TRUE)
                      IN  updateVoiceStatus(
                            [s2 EXCEPT !.ref = 0, !.buf = ""], FALSE)
       IN  clearEmergencyTimeout(s1)
  ELSE s

AudioStoppedTimeout ==
  \E t \in TimerOf("audioStopped") :
    Handled(audioStoppedCallback(Fired(Cur, t)))

\* the 2000 ms callback armed after a medical action: generateSummary, then
\* on success (ok) the summary is dispatched as
\* conversation/fetchConversationDetails/fulfilled and a system message is
\* saved
AutoSummaryTimeout ==
  \E t \in TimerOf("autoSummary"), ok \in BOOLEAN :
    /\ Commit(IF ok THEN saveMessage(Fired(Cur, t), t.sessionId, "system",
                                     "summary generated")
              ELSE Fired(Cur, t))
    /\ selectedConversation' = IF ok THEN t.sessionId
                               ELSE selectedConversation
    /\ UNCHANGED <<currentSession, connection, cbLastTranslation,
                   cbSessionId, parseErrors, cbPendingUserMessage,
                 cbMessageQueue, svc, startCalls, stopCall, starts, fnCalls>>

(***************************************************************************)
(* handleFunctionCall: the part before `await dispatch(sendFunctionCall)`, *)
(* and the two ways the awaited call ends.                                 *)
(***************************************************************************)
\* history: the placeholder unit of the utterance that asked for the action,
\* the latest unit if a medical-action utterance created it
TriggeringUnit ==
  IF Len(translationPairs) > 0 /\ translationPairs[1].kind = "action"
  THEN opened ELSE 0

FunctionCallArgumentsDone(functionName) ==
  /\ Delivering
  /\ LET s1 == updateVoiceStatus(Cur, FALSE)
         sessionId == SessionIdSeen
     IN  IF sessionId = 0
         THEN /\ Handled(updateVoiceStatus(s1, TRUE))
         ELSE /\ BagCardinality(fnCalls) < MaxCalls
              /\ Commit(s1)
              /\ fnCalls' = fnCalls (+)
                   SetToBag({[functionName |-> functionName,
                              sessionId |-> sessionId,
                              trigger |-> TriggeringUnit]})
              /\ UNCHANGED <<lifecycleVars>>

functionOutput == [type |-> "conversation.item.create", text |-> "output"]
doneResponseRequest == [type |-> "response.create", text |-> "Done"]

functionCallSucceeded(s, call) ==
  LET s1 == saveMessage(s, call.sessionId, "system", call.functionName)
      s2 == IF s1.ref # 0
            THEN [updateTranslationPair(s1, s1.ref, "Done", TRUE)
                    EXCEPT !.ref = 0, !.buf = ""]
            ELSE s1
      s3 == sendMessage(s2, functionOutput)
      s4 == sendMessage(s3, doneResponseRequest)
      s5 == updateVoiceStatus(s4, FALSE)
  IN  [s5 EXCEPT !.tm = @ (+) SetToBag({[kind |-> "autoSummary",
                                         unit |-> CurrentUnit(s5),
                                         text |-> call.functionName,
                                         sessionId |-> call.sessionId]})]

FunctionCallSucceeded ==
  \E call \in BagToSet(fnCalls) :
    /\ Pending < MaxTimers
    /\ Commit(functionCallSucceeded(Cur, call))
    /\ fnCalls' = fnCalls (-) SetToBag({call})
    /\ UNCHANGED <<lifecycleVars>>

\* sendFunctionCall.rejected sets the error status; the catch sets it again
FunctionCallFailed ==
  \E call \in BagToSet(fnCalls) :
    /\ Commit(updateVoiceStatus(Cur, TRUE))
    /\ fnCalls' = fnCalls (-) SetToBag({call})
    /\ UNCHANGED <<lifecycleVars>>

(***************************************************************************)
(* startVoiceChat and webrtcService.startConnection.  A call waits in      *)
(* startCalls in one of three phases:                                      *)
(*   "mic"     awaiting the permission checks and the microphone           *)
(*   "offer"   peer connection and data channel created, awaiting the      *)
(*             local description, ICE gathering and webrtcAPI.connect      *)
(*   "answer"  session id stored, awaiting the remote description and the  *)
(*             connected state                                             *)
(***************************************************************************)
MaxPendingStarts == 1  \* startVoiceChat calls awaiting startConnection at once

resetVoiceState(s) ==
  [s EXCEPT !.vs = initialVoiceState, !.lt = "", !.pend = FALSE,
            !.queue = <<>>]

\* a faulty variant: the session id outlives the cleanup
cleanupKeepsSessionId(service) == [service EXCEPT !.channel = "none"]

\* webrtcService.cleanup()
cleanup(service) == [service EXCEPT !.channel = "none", !.sessionId = 0]

Moved(from, to) ==
  (startCalls (-) SetToBag({from})) (+)
     (IF to = "" THEN EmptyBag ELSE SetToBag({to}))

\* the handler registered by onEvent is the callback of the render in which
\* startVoiceChat was called: it keeps that render's lastTranslation,
\* connection and currentSession
StartVoiceChat ==
  /\ starts < MaxStarts
  /\ BagCardinality(startCalls) < MaxPendingStarts
  /\ connection' = [sessionId |-> 0, isConnected |-> FALSE,
                    connectionState |-> "connecting"]
  /\ Commit(updateVoiceStatus(resetVoiceState(Cur), FALSE))
  /\ cbLastTranslation' = lastTranslation
  /\ cbSessionId' = OrId(connection.sessionId, currentSession)
  /\ startCalls' = startCalls (+) SetToBag({"mic"})
  /\ starts' = starts + 1
  /\ UNCHANGED <<currentSession, selectedConversation, svc, stopCall,
                 fnCalls, cbPendingUserMessage, cbMessageQueue, parseErrors>>

SvcChannelCreated ==
  /\ "mic" \in BagToSet(startCalls)
  /\ startCalls' = Moved("mic", "offer")
  /\ svc' = [svc EXCEPT !.leaked = @ \/ svc.channel = "open",
                        !.channel = "connecting"]
  /\ UNCHANGED <<translationPairs, currentSession, selectedConversation,
                 connection, voiceState,
                 lastTranslation, pendingUserMessage, messageQueue, intent, currentPairRef,
                 assistantTranscriptRef, emergencyTimer, timers,
                 cbLastTranslation, cbSessionId, parseErrors, cbPendingUserMessage,
                 cbMessageQueue, stopCall, fnCalls, now,
                 opened, starts, outbox, saved>>

\* webrtcAPI.connect answers; reading localDescription of a peer connection
\* that cleanup() has set to null throws instead (StartRejected)
SvcAnswered ==
  /\ "offer" \in BagToSet(startCalls)
  /\ svc.channel # "none"
  /\ startCalls' = Moved("offer", "answer")
  /\ svc' = [svc EXCEPT !.issued = @ + 1, !.sessionId = svc.issued + 1]
  /\ UNCHANGED <<translationPairs, currentSession, selectedConversation,
                 connection, voiceState,
                 lastTranslation, pendingUserMessage, messageQueue, intent, currentPairRef,
                 assistantTranscriptRef, emergencyTimer, timers,
                 cbLastTranslation, cbSessionId, parseErrors, cbPendingUserMessage,
                 cbMessageQueue, stopCall, fnCalls, now,
                 opened, starts, outbox, saved>>

\* webrtcAPI.connect answers and its result carries no sessionId
SvcAnsweredWithoutSessionId ==
  /\ "offer" \in BagToSet(startCalls)
  /\ svc.channel # "none"
  /\ startCalls' = Moved("offer", "answer")
  /\ svc' = [svc EXCEPT !.sessionId = 0]
  /\ UNCHANGED <<translationPairs, currentSession, selectedConversation,
                 connection, voiceState,
                 lastTranslation, pendingUserMessage, messageQueue, intent, currentPairRef,
                 assistantTranscriptRef, emergencyTimer, timers,
                 cbLastTranslation, cbSessionId, parseErrors, cbPendingUserMessage,
                 cbMessageQueue, stopCall, fnCalls, now,
                 opened, starts, outbox, saved>>

\* startConnection returns this.connection; waitForConnectionState returns at
\* once when the peer connection is null
StartResolved ==
  /\ "answer" \in BagToSet(startCalls)
  /\ startCalls' = Moved("answer", "")
  /\ svc' = [svc EXCEPT !.channel = IF @ = "connecting" THEN "open" ELSE @]
  /\ connection' = [sessionId |-> svc.sessionId, isConnected |-> TRUE,
                    connectionState |-> "connected"]
  /\ currentSession' = IF svc.sessionId # 0 THEN svc.sessionId
                       ELSE currentSession
  /\ UNCHANGED <<translationPairs, selectedConversation, voiceState,
                 lastTranslation,
                 pendingUserMessage, messageQueue, intent, currentPairRef, assistantTranscriptRef,
                 emergencyTimer, timers, cbLastTranslation, cbSessionId, parseErrors, cbPendingUserMessage,
                 cbMessageQueue,
                 stopCall, fnCalls, now, opened, starts, outbox, saved>>

StartRejected ==
  \E phase \in BagToSet(startCalls) :
    /\ startCalls' = Moved(phase, "")
    /\ svc' = cleanup(svc)
    /\ connection' = [sessionId |-> 0, isConnected |-> FALSE,
                      connectionState |-> "failed"]
    /\ Commit(updateVoiceStatus(Cur, TRUE))
    /\ UNCHANGED <<currentSession, selectedConversation, cbLastTranslation,
                   cbSessionId, parseErrors, cbPendingUserMessage,
                 cbMessageQueue, stopCall,
                   fnCalls, starts>>

\* the callback startVoiceChat gives to onConnectionStateChange.  The peer
\* connection reports connecting and connected while startConnection awaits
\* the connected state, and failed once the connection was established; a
\* failed peer connection closes its data channel.  (A failure before that
\* makes startConnection reject: StartRejected.)
ConnectionStateChanged(state) ==
  /\ IF state = "failed" THEN svc.channel = "open"
     ELSE "answer" \in BagToSet(startCalls) /\ svc.channel = "connecting"
  /\ connection' = [connection EXCEPT !.connectionState = state]
  /\ svc' = IF state = "failed" THEN [svc EXCEPT !.channel = "closed"]
            ELSE svc
  /\ Commit(IF state = "connected"
            THEN showIntent(updateVoiceStatus(setConnected(Cur, TRUE), FALSE))
            ELSE IF state = "failed"
            THEN setConnected(updateVoiceStatus(Cur, TRUE), FALSE)
            ELSE updateVoiceStatus(Cur, FALSE))
  /\ UNCHANGED <<currentSession, selectedConversation, cbLastTranslation,
                 cbSessionId, parseErrors, cbPendingUserMessage,
                 cbMessageQueue, startCalls, stopCall, fnCalls, starts>>

(***************************************************************************)
(* stopVoiceChat: the part before `await dispatch(endSession)`, the part   *)
(* between the two awaits, and the cleanup that ends every path.           *)
(***************************************************************************)
StopCleanup(s) ==
  /\ svc' = cleanup(svc)
  /\ connection' = initialConnection
  /\ currentSession' = 0
  /\ Commit(updateVoiceStatus(
              [hideIntent(resetVoiceState(s))
                 EXCEPT !.pairs = <<>>, !.ref = 0, !.buf = "",
                        !.em = NoTimer],
              FALSE))
  /\ stopCall' = NoStop

StopVoiceChat ==
  /\ stopCall.phase = "idle"
  /\ LET s1 == forceCompleteIncompleteTranslations(
                 updateVoiceStatus(Cur, FALSE))
         sessionId == OrId(OrId(connection.sessionId, currentSession),
                           svc.sessionId)
     IN  /\ IF sessionId # 0
            THEN /\ Commit(s1)
                 /\ stopCall' = [phase |-> "endSession",
                                 sessionId |-> sessionId]
                 /\ UNCHANGED <<svc, connection, currentSession>>
            ELSE StopCleanup(s1)
  /\ UNCHANGED <<selectedConversation, cbLastTranslation, cbSessionId, parseErrors, cbPendingUserMessage,
                 cbMessageQueue,
                 startCalls, fnCalls, starts>>

StopSessionEnded ==
  /\ stopCall.phase = "endSession"
  /\ stopCall' = [stopCall EXCEPT !.phase = "summary"]
  /\ UNCHANGED <<translationPairs, currentSession, selectedConversation,
                 connection, voiceState,
                 lastTranslation, pendingUserMessage, messageQueue, intent, currentPairRef,
                 assistantTranscriptRef, emergencyTimer, timers,
                 cbLastTranslation, cbSessionId, parseErrors, cbPendingUserMessage,
                 cbMessageQueue, svc, startCalls, fnCalls,
                 now, opened, starts, outbox, saved>>

\* endSession rejected, or generateSummary fulfilled (ok, the summary is
\* dispatched as conversation/fetchConversationDetails/fulfilled) or rejected
StopFinished ==
  /\ stopCall.phase \in {"endSession", "summary"}
  /\ StopCleanup(Cur)
  /\ \E ok \in BOOLEAN :
       selectedConversation' = IF stopCall.phase = "summary" /\ ok
                               THEN stopCall.sessionId
                               ELSE selectedConversation
  /\ UNCHANGED <<cbLastTranslation, cbSessionId, parseErrors, cbPendingUserMessage,
                 cbMessageQueue, startCalls, fnCalls, starts>>

Next ==
  \/ StartVoiceChat
  \/ SvcChannelCreated
  \/ SvcAnswered
  \/ SvcAnsweredWithoutSessionId
  \/ StartResolved
  \/ StartRejected
  \/ \E state \in ConnectionStates : ConnectionStateChanged(state)
  \/ StopVoiceChat
  \/ StopSessionEnded
  \/ StopFinished
  \/ SpeechStarted
  \/ SpeechStopped
  \/ ResponseCreated
  \/ \E text \in Finals : OutputItemAdded(text)
  \/ \E text \in Finals : OutputItemDone(text)
  \/ \E text \in Finals : ContentPartDone(text)
  \/ \E delta \in Deltas : TranscriptDelta(delta)
  \/ \E text \in Finals : TranscriptDone(text)
  \/ \E text \in Finals : ResponseDone(text)
  \/ \E text \in Utterances, ms \in ClockReadings : UserTranscript(text, ms)
  \/ TranscriptionFailed
  \/ AudioStopped
  \/ ErrorEvent
  \/ \E name \in FunctionNames : FunctionCallArgumentsDone(name)
  \/ FunctionCallSucceeded
  \/ FunctionCallFailed
  \/ EmergencyTimeout
  \/ NoDeltaTimeout
  \/ ResponseDoneTimeout
  \/ AudioStoppedTimeout
  \/ AutoSummaryTimeout

Spec == Init /\ [][Next]_vars

(***************************************************************************)
(* Environments.  Next lets every handler run with every input, and its    *)
(* state space is the product of what the handlers below can do            *)
(* independently.  Each specification that follows keeps Init and takes    *)
(* its steps from Next, with the transport delivering only some of the     *)
(* events: every behaviour of it is a behaviour of Spec.                   *)
(***************************************************************************)
\* one session: startVoiceChat is called once and stopVoiceChat never
Connect ==
  \/ starts = 0 /\ StartVoiceChat
  \/ SvcChannelCreated
  \/ SvcAnswered
  \/ StartResolved
  \/ StartRejected

\* a session of ordinary utterances, the responses to them and the timers
TimerNext ==
  \/ Connect
  \/ \E ms \in ClockReadings : UserTranscript("hola", ms)
  \/ ResponseCreated
  \/ OutputItemAdded("hola")
  \/ \E delta \in Deltas : TranscriptDelta(delta)
  \/ \E text \in {"", "hola"} : OutputItemDone(text)
  \/ \E text \in {"", "hola"} : ContentPartDone(text)
  \/ \E text \in {"", "hola"} : TranscriptDone(text)
  \/ \E text \in {"", "hola"} : ResponseDone(text)
  \/ AudioStopped
  \/ EmergencyTimeout
  \/ NoDeltaTimeout
  \/ ResponseDoneTimeout
  \/ AudioStoppedTimeout

TimerSpec == Init /\ [][TimerNext]_vars

\* the browser runs the callback of every timeout that stays pending
FairTimerSpec ==
  /\ TimerSpec
  /\ WF_vars(EmergencyTimeout)
  /\ WF_vars(NoDeltaTimeout)
  /\ WF_vars(ResponseDoneTimeout)
  /\ WF_vars(AudioStoppedTimeout)

\* a session in which responses begin and neither response.done nor a
\* completion event of the transcript ever arrives
RecoveryNext ==
  \/ Connect
  \/ \E ms \in ClockReadings : UserTranscript("hola", ms)
  \/ ResponseCreated
  \/ OutputItemAdded("hola")
  \/ \E delta \in Deltas : TranscriptDelta(delta)
  \/ AudioStopped
  \/ EmergencyTimeout
  \/ NoDeltaTimeout
  \/ AudioStoppedTimeout

RecoverySpec == Init /\ [][RecoveryNext]_vars

\* a session of utterances that ask for medical actions, the function calls
\* of the model and the completion events of its responses
ActionNext ==
  \/ Connect
  \/ \E text \in {"hola", "repeat lab order"}, ms \in ClockReadings :
        UserTranscript(text, ms)
  \/ \E name \in FunctionNames : FunctionCallArgumentsDone(name)
  \/ FunctionCallSucceeded
  \/ FunctionCallFailed
  \/ AutoSummaryTimeout
  \/ \E text \in Finals : OutputItemDone(text)
  \/ \E text \in Finals : ContentPartDone(text)
  \/ \E text \in Finals : TranscriptDone(text)

ActionSpec == Init /\ [][ActionNext]_vars

\* sessions started, stopped and started again, with utterances and the
\* completion event that sets lastTranslation
SessionNext ==
  \/ StartVoiceChat
  \/ SvcChannelCreated
  \/ SvcAnswered
  \/ StartResolved
  \/ StartRejected
  \/ StopVoiceChat
  \/ StopSessionEnded
  \/ StopFinished
  \/ \E text \in Utterances, ms \in ClockReadings : UserTranscript(text, ms)
  \/ \E text \in Finals : OutputItemDone(text)

SessionSpec == Init /\ [][SessionNext]_vars

\* a session of ordinary utterances whose responses stream deltas and end
\* with response.audio_transcript.done
ScenarioNext ==
  \/ Connect
  \/ \E ms \in ClockReadings : UserTranscript("hola", ms)
  \/ ResponseCreated
  \/ \E delta \in Deltas : TranscriptDelta(delta)
  \/ \E transcript \in Transcripts : TranscriptDone(transcript)
  \/ EmergencyTimeout
  \/ NoDeltaTimeout

ScenarioSpec == Init /\ [][ScenarioNext]_vars

\* a session in which the speakers start talking while responses are under
\* way, and the timeouts decide when a unit is complete
EscalationNext ==
  \/ Connect
  \/ SpeechStarted
  \/ \E ms \in ClockReadings : UserTranscript("hola", ms)
  \/ ResponseCreated
  \/ \E delta \in Deltas : TranscriptDelta(delta)
  \/ \E text \in {"", "hola"} : ResponseDone(text)
  \/ AudioStopped
  \/ EmergencyTimeout
  \/ NoDeltaTimeout
  \/ ResponseDoneTimeout
  \/ AudioStoppedTimeout

EscalationSpec == Init /\ [][EscalationNext]_vars

\* a session, with or without a session id from the backend, of utterances
\* and function calls that succeed or fail
DispatchNext ==
  \/ Connect
  \/ SvcAnsweredWithoutSessionId
  \/ \E text \in {"hola", "repeat lab order"}, ms \in ClockReadings :
        UserTranscript(text, ms)
  \/ \E name \in FunctionNames : FunctionCallArgumentsDone(name)
  \/ FunctionCallSucceeded
  \/ FunctionCallFailed
  \/ AutoSummaryTimeout

DispatchSpec == Init /\ [][DispatchNext]_vars

\* one session that is started and stopped, with utterances, responses and
\* function calls, and the timeouts they leave behind; the backend answers
\* a function call before stopVoiceChat is called or not at all, so that
\* every timeout pending after the stop was set before it
TeardownNext ==
  \/ Connect
  \/ StopVoiceChat
  \/ StopSessionEnded
  \/ StopFinished
  \/ \E text \in {"hola", "repeat lab order"}, ms \in ClockReadings :
        UserTranscript(text, ms)
  \/ ResponseCreated
  \/ \E name \in FunctionNames : FunctionCallArgumentsDone(name)
  \/ stopCall = NoStop /\ connection.isConnected /\ FunctionCallSucceeded
  \/ stopCall = NoStop /\ connection.isConnected /\ FunctionCallFailed
  \/ EmergencyTimeout
  \/ NoDeltaTimeout
  \/ AutoSummaryTimeout

TeardownSpec == Init /\ [][TeardownNext]_vars

\* sessions started, stopped and started again, with ordinary utterances
LifecycleNext ==
  \/ StartVoiceChat
  \/ SvcChannelCreated
  \/ SvcAnswered
  \/ StartResolved
  \/ StartRejected
  \/ StopVoiceChat
  \/ StopSessionEnded
  \/ StopFinished
  \/ \E ms \in ClockReadings : UserTranscript("hola", ms)

LifecycleSpec == Init /\ [][LifecycleNext]_vars

\* a session in which the transport delivers error events among the
\* utterances and the transcripts of the responses
ErrorNext ==
  \/ Connect
  \/ ErrorEvent
  \/ \E ms \in ClockReadings : UserTranscript("hola", ms)
  \/ \E delta \in Deltas : TranscriptDelta(delta)
  \/ \E transcript \in Transcripts : TranscriptDone(transcript)

ErrorSpec == Init /\ [][ErrorNext]_vars

\* a session whose peer connection reports its states, the failed state
\* among them, with utterances and completion events while it lasts
FailureNext ==
  \/ Connect
  \/ \E state \in ConnectionStates : ConnectionStateChanged(state)
  \/ \E ms \in ClockReadings : UserTranscript("hola", ms)
  \/ \E text \in Finals : OutputItemDone(text)

FailureSpec == Init /\ [][FailureNext]_vars

(***************************************************************************)
(* Properties.  Units are numbered in the order createTranslationPair      *)
(* opened them; the store keeps the latest first and is only ever emptied  *)
(* as a whole, so the unit at index i is unit opened - i + 1.              *)
(***************************************************************************)
Units == 1..Len(translationPairs)

NumberOf(i) == opened - i + 1

Incomplete == {i \in Units : ~translationPairs[i].isComplete}

\* the units with a number above n keep every field over the step
LaterUnitsUnchanged(n) ==
  /\ Len(translationPairs') = Len(translationPairs)
  /\ \A i \in Units :
       NumberOf(i) > n => translationPairs'[i] = translationPairs[i]

\* C1: whatever events, timer firings and calls have happened, the store
\* never holds more than one translation unit with isComplete = FALSE.
C1_AtMostOneIncomplete == Cardinality(Incomplete) <= 1

\* C2: when an utterance handled as ordinary opens a unit while an earlier
\* unit is still open, the earlier unit is complete once the new one is in
\* the store: the handle never moves on from a unit it leaves incomplete.
C2_EarlierUnitCompletedFirst ==
  [][(/\ opened' = opened + 1
      /\ translationPairs'[1].kind = "ordinary"
      /\ currentPairRef # 0
      /\ Incomplete # {})
     => \A i \in Units : translationPairs'[i + 1].isComplete]_vars

\* C3: every unit that is opened is eventually completed, given only that
\* pending timers fire; no further event of the transport is needed.
C3_EveryUnitEventuallyCompleted ==
  \A n \in 1..MaxUnits :
    (opened >= n) ~> (opened >= n /\ translationPairs[opened - n + 1].isComplete)

\* C4: in a session where no response.done and no completion event of the
\* transcript arrives, once the hard-ceiling timer armed by a response.created
\* has fired, the unit that was open at that response.created is complete
\* and its text is not empty.
C4_CompletedWhenCeilingFires ==
  [][(EmergencyTimeout /\ emergencyTimer.unit >= 1)
     => LET unit == translationPairs'[opened - emergencyTimer.unit + 1]
        IN  unit.isComplete /\ unit.translatedText # ""]_vars

\* C5: the callback of a recovery timer (hard ceiling, 2 s no-delta check,
\* grace after response.done, grace after the audio stopped) that was armed
\* while an earlier unit was the current one changes no unit opened after it.
C5_TimerLeavesLaterUnits ==
  [][/\ (EmergencyTimeout /\ emergencyTimer.unit >= 1)
          => LaterUnitsUnchanged(emergencyTimer.unit)
     /\ \A t \in BagToSet(timers) :
          (/\ t.kind # "autoSummary"
           /\ t.unit >= 1
           /\ timers' = timers (-) SetToBag({t}))
            => LaterUnitsUnchanged(t.unit)]_vars

\* the placeholder texts of the medical-action branch
Placeholders == {"Processing Lab Order...", "Scheduling Appointment..."}

\* the step opens one unit, at the head of the store
OpensUnit ==
  /\ Len(translationPairs') = Len(translationPairs) + 1
  /\ \A i \in Units : translationPairs'[i + 1] = translationPairs[i]

\* the step opens no unit and leaves the current-unit handle where it was
OpensNoUnit ==
  /\ translationPairs' = translationPairs
  /\ currentPairRef' = currentPairRef

\* C6: an utterance whose lower-cased, trimmed text holds a medical-action
\* keyword and a repeat keyword is handled as a medical action, whatever
\* lastTranslation is: a placeholder unit is opened and nothing is sent.
C6_MedicalActionBeforeRepeat ==
  [][\A t \in Utterances, ms \in ClockReadings :
       (/\ isRepeatRequest(t)
        /\ detectMedicalAction(t).isMedicalAction
        /\ UserTranscript(t, ms))
         => /\ OpensUnit
            /\ translationPairs'[1].translatedText \in Placeholders
            /\ outbox' = <<>>]_vars

\* C7: an utterance that matches a repeat keyword (and no medical-action
\* keyword) while lastTranslation is empty is a no-op: no unit is opened and
\* nothing is sent.
C7_RepeatWithoutHistoryIsNoOp ==
  [][\A t \in Utterances, ms \in ClockReadings :
       (/\ isRepeatRequest(t)
        /\ ~detectMedicalAction(t).isMedicalAction
        /\ lastTranslation = ""
        /\ cbLastTranslation = ""
        /\ UserTranscript(t, ms))
         => OpensNoUnit /\ outbox' = <<>>]_vars

\* C8: an utterance handled as a repeat request while lastTranslation is not
\* empty sends the replay instruction carrying lastTranslation and opens no
\* unit: the store and the current-unit handle stay as they were.
C8_RepeatReplaysWithoutUnit ==
  [][\A t \in Utterances, ms \in ClockReadings :
       (/\ Classify(t) = "repeat"
        /\ lastTranslation # ""
        /\ UserTranscript(t, ms))
         => /\ outbox' = <<repeatMessage(lastTranslation),
                            repeatResponseRequest(lastTranslation)>>
            /\ OpensNoUnit]_vars

\* C9: when sendFunctionCall succeeds, the unit that gets the confirmation
\* text is the placeholder unit of the utterance that asked for the action,
\* whatever was handled while the call was awaited (here: even when no two
\* units are open at once).
C9_ConfirmationGoesToTriggeringUnit ==
  [][\A call \in BagToSet(fnCalls) :
       (/\ call.trigger >= 1
        /\ Cardinality(Incomplete) <= 1
        /\ fnCalls' = fnCalls (-) SetToBag({call})
        /\ Len(translationPairs') = Len(translationPairs))
         => \A i \in Units :
              translationPairs'[i] # translationPairs[i]
                => NumberOf(i) = call.trigger]_vars

\* C10: no step of a medical-action turn changes lastTranslation: not the
\* utterance that opens the placeholder unit, not the successful dispatch,
\* not a completion event of the acknowledgment the dispatcher asked for.
C10_ActionTurnKeepsLastTranslation ==
  [][(\/ \E t \in Utterances, ms \in ClockReadings :
           /\ UserTranscript(t, ms)
           /\ OpensUnit
           /\ translationPairs'[1].translatedText \in Placeholders
      \/ FunctionCallSucceeded
      \/ /\ outbox = <<functionOutput, doneResponseRequest>>
         /\ Len(translationPairs) >= 1
         /\ translationPairs[1].originalText = "repeat lab order"
         /\ translationPairs[1].translatedText = "Done"
         /\ translationPairs[1].isComplete
         /\ \/ OutputItemDone("Done")
            \/ ContentPartDone("Done")
            \/ TranscriptDone("Done"))
     => lastTranslation' = lastTranslation]_vars

\* the unit currentPairRef names is the latest one and an ordinary utterance
\* opened it
OrdinaryUnitOpen ==
  /\ currentPairRef # 0
  /\ Len(translationPairs) >= 1
  /\ translationPairs[1].id = currentPairRef
  /\ translationPairs[1].kind = "ordinary"
  /\ ~translationPairs[1].isComplete

\* C11: when response.audio_transcript.done carries a transcript T that is
\* not blank while the unit of an ordinary utterance is open, the unit ends
\* with translatedText equal to T without its leading and trailing blanks,
\* isComplete = TRUE, and lastTranslation is that same text.
C11_FinalTranscriptCompletesUnit ==
  [][\A T \in Transcripts :
       (OrdinaryUnitOpen /\ Truthy(trim(T)) /\ TranscriptDone(T))
         => /\ translationPairs'[1].translatedText = trim(T)
            /\ translationPairs'[1].isComplete
            /\ lastTranslation' = trim(T)]_vars

\* C11 as stated: the unit's text and lastTranslation equal T itself.
C11_FinalTranscriptVerbatim ==
  [][\A T \in Transcripts :
       (OrdinaryUnitOpen /\ Truthy(T) /\ TranscriptDone(T))
         => /\ translationPairs'[1].translatedText = T
            /\ translationPairs'[1].isComplete
            /\ lastTranslation' = T]_vars

\* the transcript " hola " has completed the unit of an ordinary utterance
C11_Witness ==
  /\ Len(translationPairs) >= 1
  /\ translationPairs[1].kind = "ordinary"
  /\ translationPairs[1].translatedText = "hola"
  /\ translationPairs[1].isComplete
  /\ lastTranslation = "hola"
  /\ currentPairRef = 0

\* C12: when stopVoiceChat clears the store and tears the transport down,
\* every unit of the store is complete: the unit that was open when
\* stopVoiceChat was called, and any unit an event opened while
\* stopVoiceChat awaited endSession or generateSummary.
C12_UnitsCompleteAtTeardown ==
  [][/\ StopFinished => \A i \in Units : translationPairs[i].isComplete
     /\ (StopVoiceChat /\ stopCall' = NoStop)
          => LET s == forceCompleteIncompleteTranslations(Cur)
             IN  \A i \in 1..Len(s.pairs) : s.pairs[i].isComplete]_vars

\* the step on which a stopVoiceChat call ends: at once when it finds no
\* session id, else when the awaited endSession or generateSummary settles
StopEnds ==
  \/ StopVoiceChat /\ stopCall' = NoStop
  \/ StopFinished

Escalation ==
  /\ \/ EmergencyTimeout
     \/ NoDeltaTimeout
     \/ ResponseDoneTimeout
     \/ AudioStoppedTimeout
  /\ currentPairRef # 0
  /\ currentPairRef' = 0

\* C14: after a timeout callback has completed the open unit,
\* pendingUserMessage is FALSE, currentPairRef is null and
\* assistantTranscriptRef is empty (messageQueue is empty throughout: nothing
\* ever adds to it), so that the next ordinary utterance opens a unit with
\* empty text.
C14_EscalationResetsTurn ==
  [][Escalation => /\ ~pendingUserMessage'
                   /\ currentPairRef' = 0
                   /\ assistantTranscriptRef' = ""]_vars

\* C15: a completion event (response.audio_transcript.done,
\* response.content_part.done, response.output_item.done) that arrives when
\* the latest unit is already complete and no unit is open changes nothing:
\* the store, currentPairRef and lastTranslation stay as the first
\* completion left them.
C15_FurtherCompletionChangesNothing ==
  [][(/\ Len(translationPairs) >= 1
      /\ Incomplete = {}
      /\ currentPairRef = 0
      /\ \E text \in Finals :
            \/ TranscriptDone(text)
            \/ ContentPartDone(text)
            \/ OutputItemDone(text))
     => /\ translationPairs' = translationPairs
        /\ currentPairRef' = currentPairRef
        /\ lastTranslation' = lastTranslation]_vars

\* handleFunctionCall ends in its catch block: sendFunctionCall was rejected
\* (the call leaves fnCalls and no summary timeout is set), or no session id
\* was found
DispatchFails ==
  \/ \E call \in BagToSet(fnCalls) :
        /\ fnCalls' = fnCalls (-) SetToBag({call})
        /\ timers' = timers
  \/ /\ SessionIdSeen = 0
     /\ \E name \in FunctionNames : FunctionCallArgumentsDone(name)

\* C16: a function call that fails, because the backend rejects it or
\* because no session id is found, does not close the session: connection,
\* currentSession and the service's connection stay as they were and the
\* error status is published; an utterance delivered afterwards, with the
\* error status still shown, opens a unit.
C16_FailedDispatchKeepsSession ==
  /\ [][DispatchFails => /\ connection' = connection
                          /\ currentSession' = currentSession
                          /\ svc' = svc
                          /\ voiceState'.isError]_vars
  /\ [][\A t \in Utterances, ms \in ClockReadings :
          (voiceState.isError /\ UserTranscript(t, ms)) => OpensUnit]_vars

\* after the function call of a medical-action utterance has failed, an
\* ordinary utterance has opened the next unit in the same session
C16_Witness ==
  /\ opened = 2
  /\ translationPairs[1].kind = "ordinary"
  /\ translationPairs[2].kind = "action"
  /\ ~translationPairs[2].isComplete
  /\ fnCalls = EmptyBag
  /\ voiceState.isError
  /\ connection.isConnected
  /\ svc.channel = "open"

\* the step completes the unit currentPairRef names on a path that has a
\* translated text for it: response.audio_transcript.done with its transcript
\* or, without one, with the accumulated text; the 800 ms callback of
\* output_audio_buffer.stopped with the accumulated text
CompletesWithText ==
  /\ CurrentUnit(Cur) >= 1
  /\ ~translationPairs[IndexOfId(translationPairs, currentPairRef)].isComplete
  /\ translationPairs'[IndexOfId(translationPairs, currentPairRef)].isComplete
  /\ \/ \E transcript \in Finals : TranscriptDone(transcript)
     \/ AudioStoppedTimeout /\ Truthy(trim(assistantTranscriptRef))

\* C17: after a unit is completed by a path that supplies translated text
\* (the delivered final transcript, the accumulated text when
\* response.audio_transcript.done carries none, the accumulated text after
\* the grace period that follows output_audio_buffer.stopped),
\* lastTranslation equals the text the unit was completed with.
C17_LastTranslationIsCompletionText ==
  [][CompletesWithText
     => lastTranslation' =
          translationPairs'[IndexOfId(translationPairs, currentPairRef)]
            .translatedText]_vars

\* C18: startVoiceChat has an effect only when the session is idle: a call
\* made while a connection is being set up or is established starts no
\* second startConnection, does not reset the voice state and does not
\* replace connection or currentSession.
C18_StartOnlyWhenIdle ==
  [][(/\ connection.connectionState \in {"connecting", "connected"}
      /\ StartVoiceChat)
     => /\ startCalls' = startCalls
        /\ voiceState' = voiceState
        /\ lastTranslation' = lastTranslation
        /\ connection' = connection
        /\ currentSession' = currentSession]_vars

\* C19: when stopVoiceChat has ended while a startVoiceChat call still
\* awaits startConnection, the session stays idle: no later step of that
\* call marks the connection as connected, stores a session id or sets
\* currentSession.
C19_InterruptedStartStaysIdle ==
  [][(/\ connection = initialConnection
      /\ stopCall = NoStop
      /\ startCalls # EmptyBag)
     => /\ ~connection'.isConnected
        /\ connection'.sessionId = 0
        /\ svc'.sessionId = 0
        /\ currentSession' = 0]_vars

\* a stopVoiceChat call has ended and startVoiceChat has not been called since
IdleAfterStop ==
  /\ starts >= 1
  /\ connection = initialConnection
  /\ stopCall = NoStop
  /\ startCalls = EmptyBag

\* C20: once stopVoiceChat has brought the session back to idle, no callback
\* of a timeout set before and no completion of a detached side effect (the
\* summary generated after a medical action, a message save) changes the
\* conversation state, the session or the voice state.
C20_NothingRunsAfterStop ==
  [][(/\ IdleAfterStop
      /\ \/ EmergencyTimeout
         \/ NoDeltaTimeout
         \/ ResponseDoneTimeout
         \/ AudioStoppedTimeout
         \/ AutoSummaryTimeout)
     => UNCHANGED <<translationPairs, currentSession, selectedConversation,
                    connection, svc, voiceState, lastTranslation,
                    pendingUserMessage>>]_vars

\* C21: after an error event has been handled (its error status is still
\* the one published), no further event of the data channel changes a unit:
\* none is opened, appended to or completed until the session is restarted.
C21_NoUnitChangeAfterError ==
  [][(voiceState.isError /\ Delivering)
     => translationPairs' = translationPairs]_vars

\* C22: when the peer connection reports the failed state during an
\* established session, the session ends without a stopVoiceChat call: the
\* service's connection is torn down, connection no longer says connected
\* and session id and currentSession are cleared.
C22_TransportFailureEndsSession ==
  [][(connection.isConnected /\ ConnectionStateChanged("failed"))
     => /\ svc'.channel = "none"
        /\ svc'.sessionId = 0
        /\ ~connection'.isConnected
        /\ connection'.sessionId = 0
        /\ currentSession' = 0]_vars

\* the session is established and no stopVoiceChat call is under way
Active ==
  /\ connection.isConnected
  /\ connection.connectionState = "connected"
  /\ stopCall.phase = "idle"

\* C23: whenever the store holds a unit the session is active: no unit is
\* created while the session is idle, being set up or being stopped, and no
\* unit remains once the session is no longer active.
C23_UnitsOnlyWhileActive ==
  /\ [](translationPairs # <<>> => Active)
  /\ [][Len(translationPairs') > Len(translationPairs) => Active]_vars


\* C24: a streaming fragment that arrived while no unit was open is not
\* dropped: when the unit for that turn is opened, the text of the fragments
\* held since then is part of the text of that unit.
C24_FragmentWithoutUnitReachesNextUnit ==
  [][(currentPairRef = 0 /\ assistantTranscriptRef # "" /\ OpensUnit)
     => includes(translationPairs'[1].translatedText,
                 assistantTranscriptRef)]_vars


(***************************************************************************)
(* The queueing router: the variant of the hook that holds back fragments  *)
(* while pendingUserMessage is set.  Its handler is registered with the    *)
(* service by startVoiceChat, so it keeps the pendingUserMessage,          *)
(* messageQueue, lastTranslation and connection of the render in which     *)
(* startVoiceChat was called; the service and the slices are the ones      *)
(* above.                                                                  *)
(***************************************************************************)
MaxQueue == 2          \* messages held in voice.messageQueue at once

\* addTranslationPair is given no id: the stored pair's id is undefined (0)
routerCreateTranslationPair(s, originalText, kind) ==
  LET pairId == s.clock
      s1 == [s EXCEPT !.ref = pairId, !.n = @ + 1]
  IN  addTranslationPair(s1, [id |-> 0, originalText |-> originalText,
                              translatedText |-> "", isComplete |-> FALSE,
                              kind |-> kind])

\* updateTranslationPair dispatched without isComplete
routerUpdateTranslationPair(s, id, translatedText) ==
  IF \E i \in 1..Len(s.pairs) : s.pairs[i].id = id
  THEN [s EXCEPT !.pairs[IndexOfId(s.pairs, id)].translatedText =
                    translatedText]
  ELSE s

routerUpdateAssistantTranscript(s, delta) ==
  LET s1 == [s EXCEPT !.buf = @ \o delta]
  IN  IF s1.ref # 0
      THEN routerUpdateTranslationPair(s1, s1.ref, s1.buf)
      ELSE s1

routerFinalizeAssistantTranscript(s, finalText) ==
  LET s1 == IF s.ref # 0
            THEN routerUpdateTranslationPair(s, s.ref, finalText)
            ELSE s
      s2 == IF cbSessionId # 0 /\ Truthy(finalText)
            THEN saveMessage(s1, cbSessionId, "assistant", finalText)
            ELSE s1
  IN  [s2 EXCEPT !.buf = "", !.ref = 0]

RECURSIVE ApplyQueued(_, _)
\* the for loop of processMessageQueue
ApplyQueued(s, queue) ==
  IF queue = <<>> THEN s
  ELSE LET message == Head(queue)
           s1 == IF message.type = "delta"
                 THEN routerUpdateAssistantTranscript(s, message.content)
                 ELSE routerFinalizeAssistantTranscript(s, message.content)
       IN  ApplyQueued(s1, Tail(queue))

\* messageQueue is the one closed over by the registered handler
processMessageQueue(s) ==
  IF Len(cbMessageQueue) = 0 THEN s
  ELSE clearMessageQueue(ApplyQueued(s, cbMessageQueue))

routerHandleUserTranscript(s0, transcript) ==
  LET s == showIntent(detectIntent(s0, transcript)) IN
  IF isRepeatRequest(transcript) /\ Truthy(cbLastTranslation)
  THEN LET s1 == updateVoiceStatus(s, FALSE)
           s2 == routerCreateTranslationPair(s1, transcript, "repeat")
           s3 == sendMessage(s2, repeatMessage(cbLastTranslation))
           s4 == sendMessage(s3, repeatResponseRequest(cbLastTranslation))
       IN  setPendingUserMessage(s4, FALSE)
  ELSE LET s1 == routerCreateTranslationPair(s, transcript, "ordinary")
           s2 == IF cbSessionId # 0
                 THEN saveMessage(s1, cbSessionId, "user", transcript)
                 ELSE s1
           s3 == setPendingUserMessage(s2, FALSE)
       IN  setTimeout(s3, "processMessageQueue", "")

\* the text held in the delta messages of a queue, in queue order
RECURSIVE QueuedText(_)
QueuedText(queue) ==
  IF queue = <<>> THEN ""
  ELSE (IF Head(queue).type = "delta" THEN Head(queue).content ELSE "")
         \o QueuedText(Tail(queue))

RouterStartVoiceChat ==
  /\ starts < MaxStarts
  /\ BagCardinality(startCalls) < MaxPendingStarts
  /\ Commit(updateVoiceStatus(resetVoiceState(Cur), FALSE))
  /\ cbPendingUserMessage' = pendingUserMessage
  /\ cbMessageQueue' = messageQueue
  /\ cbLastTranslation' = lastTranslation
  /\ cbSessionId' = connection.sessionId
  /\ startCalls' = startCalls (+) SetToBag({"mic"})
  /\ starts' = starts + 1
  /\ UNCHANGED <<currentSession, selectedConversation, connection, svc,
                 stopCall, fnCalls, parseErrors>>

RouterTranscriptDelta(delta) ==
  /\ Delivering
  /\ Len(assistantTranscriptRef) + Len(delta) <= MaxLen
  /\ Len(messageQueue) < MaxQueue
  /\ Handled(IF Truthy(trim(delta))
             THEN IF cbPendingUserMessage
                  THEN addToMessageQueue(Cur, [type |-> "delta",
                                               content |-> delta])
                  ELSE routerUpdateAssistantTranscript(Cur, delta)
             ELSE Cur)

RouterTranscriptDone(transcript) ==
  /\ Delivering
  /\ Len(messageQueue) < MaxQueue
  /\ Handled(IF Truthy(trim(transcript))
             THEN LET s1 == setLastTranslation(Cur, trim(transcript))
                  IN  IF cbPendingUserMessage
                      THEN addToMessageQueue(s1, [type |-> "final",
                                                  content |-> transcript])
                      ELSE routerFinalizeAssistantTranscript(s1, transcript)
             ELSE Cur)

RouterResponseDone ==
  /\ Delivering
  /\ Pending < MaxTimers
  /\ LET s1 == setPendingUserMessage(updateVoiceStatus(Cur, FALSE), FALSE)
         s2 == [s1 EXCEPT !.buf = ""]
     IN  Handled(setTimeout(s2, "processMessageQueue", ""))

RouterUserTranscript(transcript, ms) ==
  /\ Delivering
  /\ opened < MaxUnits
  /\ Pending < MaxTimers
  /\ Handled(IF Truthy(transcript)
             THEN routerHandleUserTranscript([Cur EXCEPT !.clock = ms],
                                             transcript)
             ELSE Cur)

\* the 100 ms callback set by handleUserTranscript and by response.done
ProcessMessageQueueTimeout ==
  \E t \in TimerOf("processMessageQueue") :
    Handled(processMessageQueue(Fired(Cur, t)))

\* the queueing router in a session started once or twice
RouterNext ==
  \/ RouterStartVoiceChat
  \/ SvcChannelCreated
  \/ SvcAnswered
  \/ StartResolved
  \/ SpeechStarted
  \/ \E delta \in Deltas : RouterTranscriptDelta(delta)
  \/ \E transcript \in Transcripts : RouterTranscriptDone(transcript)
  \/ RouterResponseDone
  \/ \E ms \in ClockReadings : RouterUserTranscript("hola", ms)
  \/ ProcessMessageQueueTimeout

RouterSpec == Init /\ [][RouterNext]_vars

\* C25: when the drain of the pending queue runs while a unit is open and
\* the queue holds fragments only, these are applied to that unit in the
\* order they arrived, and the queue is empty afterwards.
C25_DrainAppliesQueueInOrder ==
  [][(/\ ProcessMessageQueueTimeout
      /\ currentPairRef # 0
      /\ \A i \in 1..Len(messageQueue) : messageQueue[i].type = "delta")
     => /\ messageQueue' = <<>>
        /\ includes(translationPairs'[1].translatedText,
                    QueuedText(messageQueue))]_vars


\* the step completes the open unit on one of the ordinary paths
NormalCompletion ==
  /\ CurrentUnit(Cur) >= 1
  /\ ~translationPairs[IndexOfId(translationPairs, currentPairRef)].isComplete
  /\ translationPairs'[IndexOfId(translationPairs, currentPairRef)].isComplete
  /\ \/ \E transcript \in Finals : TranscriptDone(transcript)
     \/ \E text \in Finals : ContentPartDone(text)
     \/ \E text \in Finals : OutputItemDone(text)
     \/ FunctionCallSucceeded

\* a timeout that would force-complete a unit is pending
RecoveryTimerArmed ==
  \/ emergencyTimer.armed
  \/ \E t \in BagToSet(timers) :
       t.kind \in {"noDelta", "responseDone", "audioStopped"}

\* C26: after a step that completes a unit on an ordinary path (transcript
\* done, content part done, output item done, or the confirmation of a
\* medical action), neither the emergency timeout nor any other recovery
\* timeout is pending.
C26_NoRecoveryTimerAfterCompletion ==
  [][NormalCompletion => ~RecoveryTimerArmed']_vars


\* C27: when the final transcript of a response arrives for an open unit, a
\* non-blank transcript completes the unit with it; a blank transcript with
\* non-blank accumulated text completes the unit with the accumulated text;
\* with both blank the unit stays open and a recovery timeout is still
\* pending to resolve it (texts compared up to surrounding white space).
C27_ResponseEndCases ==
  [][\A transcript \in Finals \cup Transcripts :
       (/\ TranscriptDone(transcript)
        /\ CurrentUnit(Cur) >= 1
        /\ ~translationPairs[IndexOfId(translationPairs,
                                       currentPairRef)].isComplete)
       => LET i == IndexOfId(translationPairs, currentPairRef)
              unit == translationPairs'[i]
          IN  IF Truthy(trim(transcript))
              THEN unit.isComplete /\ unit.translatedText = trim(transcript)
              ELSE IF Truthy(trim(assistantTranscriptRef))
              THEN /\ unit.isComplete
                   /\ unit.translatedText = trim(assistantTranscriptRef)
              ELSE /\ unit = translationPairs[i]
                   /\ RecoveryTimerArmed']_vars


(***************************************************************************)
(* Events with their response.  The server answers the n-th utterance with *)
(* response n and stamps every event of that response with its             *)
(* response_id; the handler reads no response_id, so the event is handled  *)
(* like any other of its type.  Events of response n can arrive once       *)
(* utterance n has been transcribed.                                       *)
(***************************************************************************)
Responses == 1..MaxUnits

ResponseTranscriptDelta(response, delta) ==
  /\ response <= opened
  /\ TranscriptDelta(delta)

ResponseTranscriptDone(response, transcript) ==
  /\ response <= opened
  /\ TranscriptDone(transcript)

\* utterances, responses whose events carry their response, and the
\* emergency timeout
AttributionNext ==
  \/ Connect
  \/ \E ms \in ClockReadings : UserTranscript("hola", ms)
  \/ ResponseCreated
  \/ \E response \in Responses, delta \in Deltas :
        ResponseTranscriptDelta(response, delta)
  \/ \E response \in Responses, transcript \in Transcripts :
        ResponseTranscriptDone(response, transcript)
  \/ EmergencyTimeout
  \/ NoDeltaTimeout

AttributionSpec == Init /\ [][AttributionNext]_vars

\* C28: a fragment or a final transcript of a response other than the one
\* that answers the utterance of the open unit (here a response to an
\* earlier unit, completed or superseded) leaves the open unit as it was.
C28_OtherResponseLeavesUnit ==
  [][\A response \in Responses :
       (/\ CurrentUnit(Cur) >= 1
        /\ response # CurrentUnit(Cur)
        /\ \/ \E delta \in Deltas : ResponseTranscriptDelta(response, delta)
           \/ \E transcript \in Transcripts :
                ResponseTranscriptDone(response, transcript))
       => LET i == IndexOfId(translationPairs, currentPairRef)
          IN  translationPairs'[i] = translationPairs[i]]_vars


\* texts a response.output_item.added event carries for its item
ItemTexts == {"Si", "hola"}

\* one response streamed as fragments and output items, in any order
StreamNext ==
  \/ Connect
  \/ \E ms \in ClockReadings : UserTranscript("hola", ms)
  \/ \E delta \in Deltas : TranscriptDelta(delta)
  \/ \E responseText \in ItemTexts : OutputItemAdded(responseText)
  \/ \E text \in Finals : OutputItemDone(text)

StreamSpec == Init /\ [][StreamNext]_vars

IsPrefix(earlier, later) ==
  /\ Len(earlier) <= Len(later)
  /\ SubSeq(later, 1, Len(earlier)) = earlier

\* C29: as long as a unit stays open, each text published for it extends the
\* text published for it before: the earlier text is a prefix of the later.
C29_PublishedTextOnlyGrows ==
  [][\A i \in Units :
       (/\ Len(translationPairs') = Len(translationPairs)
        /\ ~translationPairs[i].isComplete
        /\ ~translationPairs'[i].isComplete)
       => IsPrefix(translationPairs[i].translatedText,
                   translationPairs'[i].translatedText)]_vars


\* one response per utterance, the utterances at different times, and the
\* four timeouts that force-complete a unit
FallbackNext ==
  \/ Connect
  \/ UserTranscript("hola", IF opened = 0 THEN now ELSE now + 1)
  \/ ResponseCreated
  \/ TranscriptDelta("ho")
  \/ \E text \in {"", "hola"} : ResponseDone(text)
  \/ AudioStopped
  \/ EmergencyTimeout
  \/ NoDeltaTimeout
  \/ ResponseDoneTimeout
  \/ AudioStoppedTimeout

FallbackSpec == Init /\ [][FallbackNext]_vars

\* the fixed texts of the timeout callbacks
FallbackTexts ==
  {"Translation timeout - please speak again",
   "No response received - please try again",
   "Response completed - transcript processing issue",
   "Audio played - transcript not captured"}

\* the text the step gives to the unit that was open before it
EscalationText ==
  translationPairs'[IndexOfId(translationPairs, currentPairRef)].translatedText

C31_UnitIdsDistinct ==
  \A i, j \in Units :
    i # j => translationPairs[i].id # translationPairs[j].id


\* utterances, also two at one reading of the clock, fragments, two kinds of
\* completion signal and the timeouts of response.created
FinalityNext ==
  \/ Connect
  \/ \E ms \in ClockReadings : UserTranscript("hola", ms)
  \/ ResponseCreated
  \/ TranscriptDelta("ho")
  \/ OutputItemDone("hola")
  \/ TranscriptDone("Done")
  \/ EmergencyTimeout
  \/ NoDeltaTimeout

FinalitySpec == Init /\ [][FinalityNext]_vars

\* two units with the same identifier have both been completed, the later
\* one with another text than the earlier one
C32_Witness ==
  /\ Len(translationPairs) = 2
  /\ translationPairs[1].id = translationPairs[2].id
  /\ translationPairs[1].isComplete
  /\ translationPairs[2].isComplete
  /\ translationPairs[1].translatedText # translationPairs[2].translatedText

\* C32: a completed unit stays as it is for as long as it is in the store:
\* isComplete does not go back to false and the translated text does not
\* change, whatever event or timeout is handled next.
C32_CompletedUnitIsFinal ==
  [][\A i \in Units :
       (/\ translationPairs[i].isComplete
        /\ Len(translationPairs') >= Len(translationPairs))
       => LET k == i + Len(translationPairs') - Len(translationPairs)
          IN  /\ translationPairs'[k].isComplete
              /\ translationPairs'[k].translatedText =
                   translationPairs[i].translatedText]_vars


\* C33: while currentPairRef is set, exactly one unit of the store has that
\* identifier and it is incomplete; while currentPairRef is null,
\* assistantTranscriptRef is empty.
C33_HandleNamesTheOpenUnit ==
  /\ currentPairRef # 0
       => /\ Cardinality({i \in Units :
                            translationPairs[i].id = currentPairRef}) = 1
          /\ \A i \in Units : translationPairs[i].id = currentPairRef
                                => ~translationPairs[i].isComplete
  /\ currentPairRef = 0 => assistantTranscriptRef = ""


(***************************************************************************)
(* The hook of src/hooks/useVoiceConversation.ts: the variant whose        *)
(* emergency timeout and response.done handler are its own.  Its           *)
(* createTranslationPair, updateAssistantTranscript and                    *)
(* finalizeAssistantTranscript do what the ones above do, and so does its  *)
(* response.audio_transcript.delta case; the service and the slices are    *)
(* the ones above.  It never dispatches addToMessageQueue, so its 100 ms   *)
(* processMessageQueue timeout does nothing and is left out, as are the    *)
(* timeouts whose callbacks only log.                                      *)
(***************************************************************************)
\* the 4000 ms callback of startEmergencyTimeout: updateTranslationPair is
\* dispatched without isComplete, and untrimmed text counts as accumulated
hookEmergencyCallback(s) ==
  LET s1 == IF s.ref # 0
            THEN LET fallbackText == OrElse(s.buf, "Translation timeout")
                 IN  routerUpdateTranslationPair(s, s.ref, fallbackText)
            ELSE s
      s2 == [s1 EXCEPT !.ref = 0, !.buf = ""]
      s3 == clearMessageQueue(setPendingUserMessage(s2, FALSE))
  IN  updateVoiceStatus(s3, FALSE)

hookHandleUserTranscript(s0, transcript) ==
  LET s == showIntent(detectIntent(s0, transcript)) IN
  IF isRepeatRequest(transcript) /\ Truthy(cbLastTranslation)
  THEN LET s1 == updateVoiceStatus(s, FALSE)
           s2 == createTranslationPair(s1, transcript, "", "repeat")
           s3 == sendMessage(s2, repeatMessage(cbLastTranslation))
           s4 == sendMessage(s3, repeatResponseRequest(cbLastTranslation))
       IN  setPendingUserMessage(s4, FALSE)
  ELSE LET s1 == createTranslationPair(s, transcript, "", "ordinary")
           sessionId == SessionIdSeen
           s2 == IF sessionId # 0
                 THEN saveMessage(s1, sessionId, "user", transcript)
                 ELSE s1
       IN  setPendingUserMessage(s2, FALSE)

HookStartVoiceChat ==
  /\ starts < MaxStarts
  /\ BagCardinality(startCalls) < MaxPendingStarts
  /\ Commit(updateVoiceStatus(resetVoiceState(Cur), FALSE))
  /\ cbLastTranslation' = lastTranslation
  /\ cbSessionId' = OrId(connection.sessionId, currentSession)
  /\ startCalls' = startCalls (+) SetToBag({"mic"})
  /\ starts' = starts + 1
  /\ UNCHANGED <<currentSession, selectedConversation, connection, svc,
                 stopCall, fnCalls, cbPendingUserMessage, cbMessageQueue,
                 parseErrors>>

HookResponseCreated ==
  /\ Delivering
  /\ Handled(startEmergencyTimeout(updateVoiceStatus(Cur, FALSE)))

HookTranscriptDone(transcript) ==
  /\ Delivering
  /\ LET s1 == IF Truthy(trim(transcript))
               THEN finalizeAssistantTranscript(
                      setLastTranslation(Cur, trim(transcript)), transcript)
               ELSE Cur
     IN  Handled(updateVoiceStatus(clearEmergencyTimeout(s1), FALSE))

HookResponseDone ==
  /\ Delivering
  /\ LET s1 == IF currentPairRef # 0 /\ assistantTranscriptRef = ""
               THEN updateTranslationPair(
                      Cur, currentPairRef,
                      "Translation not received - please try again", TRUE)
               ELSE Cur
         s2 == setPendingUserMessage(clearEmergencyTimeout(s1), FALSE)
         s3 == [s2 EXCEPT !.buf = "", !.ref = 0]
     IN  Handled(updateVoiceStatus(s3, FALSE))

HookUserTranscript(transcript, ms) ==
  /\ Delivering
  /\ opened < MaxUnits
  /\ Handled(IF Truthy(transcript)
             THEN hookHandleUserTranscript([Cur EXCEPT !.clock = ms],
                                           transcript)
             ELSE Cur)

HookEmergencyTimeout ==
  /\ emergencyTimer.armed
  /\ Handled(hookEmergencyCallback([Cur EXCEPT !.em = NoTimer]))

\* this hook in one session of ordinary utterances, each unit opened at a
\* later clock reading than the one before
HookNext ==
  \/ starts = 0 /\ HookStartVoiceChat
  \/ SvcChannelCreated
  \/ SvcAnswered
  \/ StartResolved
  \/ StartRejected
  \/ HookUserTranscript("hola", IF opened = 0 THEN now ELSE now + 1)
  \/ HookResponseCreated
  \/ TranscriptDelta("ho")
  \/ \E transcript \in {" hola ", " "} : HookTranscriptDone(transcript)
  \/ HookResponseDone
  \/ HookEmergencyTimeout

HookSpec == Init /\ [][HookNext]_vars

\* C34: in the hook of src/hooks/useVoiceConversation.ts, when the
\* emergency-timeout callback or the response.done handler clears
\* currentPairRef, the unit it referred to is complete afterwards.
C34_ClearedHandleLeavesUnitComplete ==
  [][((HookEmergencyTimeout \/ HookResponseDone)
      /\ currentPairRef # 0
      /\ currentPairRef' = 0
      /\ \E i \in Units : translationPairs[i].id = currentPairRef)
     => translationPairs'[IndexOfId(translationPairs', currentPairRef)]
          .isComplete]_vars

\* one utterance and the events of the one response to it, in any order
OneResponseNext ==
  \/ Connect
  \/ SpeechStarted
  \/ SpeechStopped
  \/ opened = 0 /\ UserTranscript("hola", now)
  \/ TranscriptDelta("ho")
  \/ ContentPartDone("hola")
  \/ OutputItemDone("hola")
  \/ TranscriptDone(" hola ")
  \/ AudioStopped
  \/ AudioStoppedTimeout

OneResponseSpec == Init /\ [][OneResponseNext]_vars

\* the assistant messages among the ones a handler gave to saveMessage
AssistantSaves(messages) ==
  {k \in 1..Len(messages) : messages[k].messageType = "assistant"}

\* C35: the final text of a response is given to saveMessage at most once:
\* once the unit of the response is complete and a completion signal has
\* published and saved the final text (lastTranslation is set), no later
\* signal of the same response (response.content_part.done,
\* response.output_item.done, response.audio_transcript.done, the
\* audio-stopped timeout) saves an assistant message again.
C35_FinalTextSavedOnce ==
  [][(opened = 1 /\ Incomplete = {} /\ Truthy(lastTranslation))
     => AssistantSaves(saved') = {}]_vars

\* C36: every unit with isComplete = true has non-empty translated text,
\* whichever path completed it.
C36_CompleteUnitHasText ==
  \A i \in Units :
    translationPairs[i].isComplete => translationPairs[i].translatedText # ""

\* a session of one utterance with every path that completes its unit:
\* delivered and accumulated text, the confirmation of a function call, the
\* recovery timeouts and stopVoiceChat
CompletionNext ==
  \/ Connect
  \/ StopVoiceChat
  \/ StopSessionEnded
  \/ StopFinished
  \/ \E text \in {"hola", "repeat lab order"} :
        opened = 0 /\ UserTranscript(text, now)
  \/ ResponseCreated
  \/ OutputItemAdded(" ")
  \/ TranscriptDelta("ho")
  \/ OutputItemDone("hola")
  \/ \E text \in {"", "hola"} : TranscriptDone(text)
  \/ \E text \in {"", "hola"} : ResponseDone(text)
  \/ AudioStopped
  \/ \E name \in FunctionNames : FunctionCallArgumentsDone(name)
  \/ stopCall = NoStop /\ connection.isConnected /\ FunctionCallSucceeded
  \/ EmergencyTimeout
  \/ NoDeltaTimeout
  \/ ResponseDoneTimeout
  \/ AudioStoppedTimeout

CompletionSpec == Init /\ [][CompletionNext]_vars

C36_Witness ==
  /\ Len(translationPairs) = 1
  /\ translationPairs[1].isComplete
  /\ translationPairs[1].translatedText = "Session ended"
  /\ stopCall # NoStop

\* the utterances that tell the two keyword lists apart
IntentUtterances ==
  {"hola", "get labs", "lab order", "x-ray", "next appointment", "follow up"}

\* one session of utterances with and without keywords, each answered or not
IntentNext ==
  \/ Connect
  \/ \E transcript \in IntentUtterances, ms \in ClockReadings :
        UserTranscript(transcript, ms)
  \/ OutputItemDone("hola")

IntentSpec == Init /\ [][IntentNext]_vars

\* the action type handleUserTranscript handles the utterance as
HandledAs(transcript) ==
  IF Classify(transcript) = "action"
  THEN detectMedicalAction(transcript).actionType
  ELSE "null"

\* C37: when an utterance has been handled, the intent indicator shows
\* lab-order exactly when handleUserTranscript handled the utterance as a
\* lab-order action, and appointment exactly when it handled it as an
\* appointment action.
C37_IntentAgreesWithAction ==
  [][\A transcript \in IntentUtterances, ms \in ClockReadings :
       UserTranscript(transcript, ms)
       => /\ (intent'.currentIntent = "lab-order")
               <=> (HandledAs(transcript) = "lab-order")
          /\ (intent'.currentIntent = "appointment")
               <=> (HandledAs(transcript) = "appointment")]_vars

(***************************************************************************)
(* The message listener of the data channel: the payload is parsed, and    *)
(* the parsed message is given to the registered callback.  The payloads   *)
(* are the JSON texts of events that carry nothing but their type.         *)
(***************************************************************************)
MaxParseErrors == 1    \* payloads that fail to parse in one run

\* a payload cut short, an empty payload, and one that is not JSON
UnparseablePayloads == {"{\"type\":\"response.created\"", "", "<html>"}

\* a faulty variant: a payload that lacks its closing brace is accepted
JSONparseLenient(data) ==
  LET opening == "{\"type\":\""
      n == Len(data)
  IN  IF n >= Len(opening) + 1 /\ SubSeq(data, 1, Len(opening)) = opening
      THEN [ok |-> TRUE,
            type |-> IF SubSeq(data, n - 1, n) = "\"}"
                     THEN SubSeq(data, Len(opening) + 1, n - 2)
                     ELSE SubSeq(data, Len(opening) + 1, n - 1)]
      ELSE [ok |-> FALSE, type |-> ""]

\* JSON.parse on texts of the form {"type":"..."}: ok is false where it throws
JSONparse(data) ==
  LET opening == "{\"type\":\""
      closing == "\"}"
      n == Len(data)
  IN  IF /\ n >= Len(opening) + Len(closing)
         /\ SubSeq(data, 1, Len(opening)) = opening
         /\ SubSeq(data, n - 1, n) = closing
      THEN [ok |-> TRUE, type |-> SubSeq(data, Len(opening) + 1, n - 2)]
      ELSE [ok |-> FALSE, type |-> ""]

\* a message that parses goes to this.onEventCallback, the switch of
\* handleRealtimeEvent
DataChannelMessage(data) ==
  /\ Delivering
  /\ LET message == JSONparse(data)
     IN  IF message.ok
         THEN \/ message.type = "response.created" /\ ResponseCreated
              \/ /\ message.type = "input_audio_buffer.speech_started"
                 /\ SpeechStarted
              \/ /\ message.type = "input_audio_buffer.speech_stopped"
                 /\ SpeechStopped
         ELSE /\ parseErrors < MaxParseErrors
              /\ parseErrors' = parseErrors + 1
              /\ UNCHANGED coordinatorVars

\* one session whose transport delivers well-formed and unparseable payloads
TransportNext ==
  \/ Connect
  \/ \E data \in UnparseablePayloads
                  \cup {"{\"type\":\"response.created\"}",
                        "{\"type\":\"input_audio_buffer.speech_started\"}",
                        "{\"type\":\"input_audio_buffer.speech_stopped\"}"} :
        DataChannelMessage(data)
  \/ \E ms \in ClockReadings : UserTranscript("hola", ms)
  \/ TranscriptDelta("ho")
  \/ EmergencyTimeout
  \/ NoDeltaTimeout

TransportSpec == Init /\ [][TransportNext]_vars

C38_Witness ==
  /\ parseErrors > 0
  /\ currentPairRef # 0
  /\ emergencyTimer.armed

\* C38: a message whose payload cannot be parsed is skipped: the callback is
\* not invoked and nothing of the coordinator changes; and after a payload
\* has been skipped, a well-formed message is still given to the callback
\* while the channel delivers.
C38_UnparseableIsSkipped ==
  /\ [][\A data \in UnparseablePayloads :
          DataChannelMessage(data) => UNCHANGED coordinatorVars]_vars
  /\ [](parseErrors > 0 /\ Delivering
          => ENABLED DataChannelMessage(
                       "{\"type\":\"input_audio_buffer.speech_started\"}"))
====
